---- MODULE Spec2Model ----
(***************************************************************************)
(* A model of the data-collection scripts of the repository:               *)
(*   - Crawler/crawler.py: the list-then-detail crawl of Jira issue pages   *)
(*     (crawl_issue_list, process_issue and its extractors, main);         *)
(*   - Kaggle/script.py: the GitHub polling script.                        *)
(* Text is a sequence of one-character strings; the web site, the browser   *)
(* and the GitHub API are the environment, whose answers are chosen with    *)
(* \E from bounded sets at the moment the program asks for them.            *)
(***************************************************************************)
EXTENDS Integers, Sequences, FiniteSets, TLC

VARIABLES
    site,             \* which fixture family the web site serves (fixed per run)
    pc,               \* crawler.py: position of main's single path of control
    pageNo,           \* the index page the browser currently shows (0: none)
    served,           \* the index pages read through driver.page_source, in order
    nextLog,          \* outcome of each attempt on the "Next" control, in order
    issue_urls,       \* crawl_issue_list: the list being built, then main's list
    all_issues_data,  \* main: the records accumulated so far
    nav,              \* every driver.get / click / quit issued, in order
    shown,            \* the detail pages read through driver.page_source, in order
    csv,              \* every dataset written by write_to_csv, in order
    text,             \* clean_text driver: the current text
    prev,             \* clean_text driver: the text before the last call
    calls,            \* clean_text driver: number of calls made
    gh                \* Kaggle/script.py: the whole state of one run

vars == <<site, pc, pageNo, served, nextLog, issue_urls, all_issues_data,
          nav, shown, csv, text, prev, calls, gh>>

crawlerVars == <<site, pc, pageNo, served, nextLog, issue_urls,
                 all_issues_data, nav, shown, csv>>
textVars == <<text, prev, calls>>

----------------------------------------------------------------------------
(* Bounds of the model *)

\* index pages a crawl may visit
MaxPages == 3
\* list items served in total by an index whose items are all distinct
MaxItems == 6
\* list items served in total by an index with repeats and odd items
MaxMixed == 2
\* length of the texts given to clean_text
MaxLen == 4
\* successive calls of clean_text on one text
MaxCalls == 2
\* page elements missing together on a detail page
MaxMissing == 2
\* comment blocks on a detail page
MaxComments == 2
\* repositories in the organisation listing
MaxRepos == 2

----------------------------------------------------------------------------
(* Sequences *)

Range(s) == {s[i] : i \in 1..Len(s)}

RECURSIVE Flatten(_)
Flatten(ss) == IF ss = <<>> THEN <<>> ELSE Head(ss) \o Flatten(Tail(ss))

\* all sequences over S of length at most n
SeqsUpTo(S, n) == UNION {[1..k -> S] : k \in 0..n}

\* the subsets of S with at most n elements
RECURSIVE SubsetsUpTo(_, _)
SubsetsUpTo(S, n) ==
    IF n = 0 THEN {{}}
    ELSE LET smaller == SubsetsUpTo(S, n - 1)
         IN smaller \cup {X \cup {e} : X \in smaller, e \in S}

IsPrefix(p, s) == Len(p) <= Len(s) /\ SubSeq(s, 1, Len(p)) = p

----------------------------------------------------------------------------
(* Text: crawler.py, clean_text *)

\* the characters \s and str.strip() treat as whitespace (two of them here)
WS == {" ", "\n"}
Chars == {"a"} \cup WS

RECURSIVE DropWs(_)
DropWs(t) == IF t # <<>> /\ Head(t) \in WS THEN DropWs(Tail(t)) ELSE t

\* re.sub(r'\s', ' ', text): every whitespace character becomes a space
RECURSIVE SubWsEach(_)
SubWsEach(t) ==
    IF t = <<>> THEN <<>>
    ELSE <<IF Head(t) \in WS THEN " " ELSE Head(t)>> \o SubWsEach(Tail(t))

\* re.sub(r'\s+', ' ', text): every maximal run of whitespace becomes one space
RECURSIVE SubWs(_)
SubWs(t) ==
    IF t = <<>> THEN <<>>
    ELSE IF Head(t) \in WS THEN <<" ">> \o SubWs(DropWs(t))
    ELSE <<Head(t)>> \o SubWs(Tail(t))

RECURSIVE RStrip(_)
RStrip(t) ==
    IF t # <<>> /\ t[Len(t)] \in WS THEN RStrip(SubSeq(t, 1, Len(t) - 1)) ELSE t

\* str.strip()
Strip(t) == RStrip(DropWs(t))

\* a clean_text with \s in place of \s+
clean_text_each(t) == Strip(SubWsEach(t))
clean_text(t) == Strip(SubWs(t))

----------------------------------------------------------------------------
(* The index served to crawl_issue_list *)

start_url == "https://issues.apache.org/jira/projects/CAMEL/issues"
BASE == "https://issues.apache.org"

\* issue keys; a word whose letters do not matter is one token of a text
Names == <<"CAMEL-1", "CAMEL-2", "CAMEL-3", "CAMEL-4", "CAMEL-5", "CAMEL-6",
           "CAMEL-7", "CAMEL-8", "CAMEL-9">>

Rel(n) == <<"/", "browse", "/", n>>
Abs(n) == <<BASE>> \o Rel(n)

\* an <li> of the issue list: with or without the a.splitview-issue-link
\* anchor, the anchor with or without an href attribute
Link(h) == [anchor |-> TRUE, attr |-> TRUE, href |-> h]
NoAnchor == [anchor |-> FALSE, attr |-> FALSE, href |-> <<>>]
NoHref == [anchor |-> TRUE, attr |-> FALSE, href |-> <<>>]

\* a page without ol.issue-list (an error page, an empty project)
NoListPage == [list |-> FALSE, items |-> <<>>]

MixedLis == {Link(Rel(Names[1])), Link(Abs(Names[1])), Link(Rel(Names[2])),
             NoAnchor, NoHref}

\* list items served so far
Used(pages) == Len(Flatten([i \in 1..Len(pages) |-> pages[i].items]))

\* the pages the index may serve next
IndexPages(kind, pages) ==
    IF kind = "distinct"
    THEN {[list |-> TRUE,
           items |-> [i \in 1..k |-> Link(Rel(Names[Used(pages) + i]))]] :
             k \in 0..(MaxItems - Used(pages))}
    ELSE {NoListPage} \cup
         {[list |-> TRUE, items |-> it] :
             it \in SeqsUpTo(MixedLis, MaxMixed - Used(pages))}

----------------------------------------------------------------------------
(* crawler.py, crawl_issue_list: one page's scrape *)

\* lines 201-202
Normalize(href) ==
    IF href # <<>> /\ Head(href) = "/" THEN <<BASE>> \o href ELSE href

\* an append without the membership test
AppendAlways(urls, h) == Append(urls, h)
\* lines 203-204
AppendNew(urls, h) == IF h \in Range(urls) THEN urls ELSE Append(urls, h)

\* lines 197-204; href None makes href.startswith raise AttributeError
RECURSIVE ScrapeItems(_, _)
ScrapeItems(items, urls) ==
    IF items = <<>> THEN [urls |-> urls, raised |-> FALSE]
    ELSE LET li == Head(items) IN
         IF ~li.anchor THEN ScrapeItems(Tail(items), urls)
         ELSE IF ~li.attr THEN [urls |-> urls, raised |-> TRUE]
         ELSE ScrapeItems(Tail(items), AppendNew(urls, Normalize(li.href)))

\* lines 190-204
ScrapeSoup(page, urls) ==
    IF page.list THEN ScrapeItems(page.items, urls)
    ELSE [urls |-> urls, raised |-> FALSE]

----------------------------------------------------------------------------
(* The detail page served to process_issue *)

\* lines 25-34: field name, CSS selector
fields == <<
    <<"Type", "#type-val">>, <<"Status", "#status-val">>,
    <<"Priority", "#priority-val">>, <<"Resolution", "#resolution-val">>,
    <<"Affects Version/s", "#versions-val">>, <<"Fix Version/s", "#fixfor-val">>,
    <<"Component/s", "#components-val">>, <<"Labels", "#labels-13028113-value">> >>

\* lines 41-44
custom_fields == <<
    <<"Patch Info", "#customfield_12310041-val">>,
    <<"Estimated Complexity", "#customfield_12310060-val">> >>

\* lines 72-76: field name, span id
date_fields == <<
    <<"Created", "created-val">>, <<"Updated", "updated-val">>,
    <<"Resolved", "resolutiondate-val">> >>

\* the <time> element inside a date span
TimeOf(span) ==
    CASE span = "created-val" -> "created-val time"
      [] span = "updated-val" -> "updated-val time"
      [] OTHER -> "resolutiondate-val time"

\* the optional elements of a detail page; "assignee-val" and "reporter-val"
\* stand for the spans inside the people section, TimeOf(s) for the <time>
\* inside span s
Elements ==
    {f[2] : f \in Range(fields) \cup Range(custom_fields)}
    \cup {"people-details", "assignee-val", "reporter-val"}
    \cup {f[2] : f \in Range(date_fields)}
    \cup {"description-val", "issue_actions_container"}

TimeElements == {TimeOf(f[2]) : f \in Range(date_fields)}

\* the text nodes of each element of the fixture: words with the whitespace
\* of the page's markup around them
ElemNodes(e) ==
    CASE e = "#type-val" -> << <<"\n", " ", "Bug", "\n">> >>
      [] e = "#status-val" -> << <<"Open">> >>
      [] e = "#priority-val" -> << <<" ", "Major", " ">> >>
      [] e = "#resolution-val" -> << <<"Unresolved", "\n">> >>
      [] e = "#versions-val" -> << <<"\n", "3.1", ",">>, <<" ", "\n">>, <<"4.0", " ">> >>
      [] e = "#fixfor-val" -> << <<"None">> >>
      [] e = "#components-val" -> << <<"camel-core">> >>
      [] e = "#labels-13028113-value" -> << <<"\n">>, <<"easy">>, <<"\n">> >>
      [] e = "#customfield_12310041-val" -> << <<"Patch", " ", "Available">> >>
      [] e = "#customfield_12310060-val" -> << <<"Novice">> >>
      [] e = "assignee-val" -> << <<"\n", "Ann", " ", "Lee", "\n">> >>
      [] e = "reporter-val" -> << <<" ", "Raj", " ">> >>
      [] e = TimeOf("created-val") -> << <<"01/Jan/20">> >>
      [] e = TimeOf("updated-val") -> << <<"\n", "02/Feb/20">> >>
      [] e = TimeOf("resolutiondate-val") -> << <<"03/Mar/20", " ">> >>
      [] e = "description-val" ->
            << <<"\n", "Steps", ":", " ", " ">>, <<"\n">>, <<"run", "\n", "\n", "it", " ">> >>
      [] OTHER -> <<>>

\* a div#comment-N of the container. concise: it has a descendant div.concise;
\* details: that div has a descendant div.action-details; anchor: that div
\* has an a.user-hover, whose text is author; body: the other text of
\* div.action-details
Block(c, d, a, author, body) ==
    [concise |-> c, details |-> d, anchor |-> a, author |-> author, body |-> body]

Authors == { <<"\n", "bob", " ">>, <<"|">> }
Bodies == { <<>>,
            <<"added", " ", "a", "\n", " ", "comment">>,
            <<"x", " ", "|", " ", "y">>,
            <<"x", " ", "|">>,
            <<"|", " ", "y">> }

MalformedBlocks == { Block(FALSE, FALSE, FALSE, <<>>, <<>>),
                     Block(TRUE, FALSE, FALSE, <<>>, <<>>) }
WellFormedBlocks ==
    {Block(TRUE, TRUE, TRUE, a, b) : a \in Authors, b \in Bodies}
    \cup {Block(TRUE, TRUE, FALSE, <<>>, b) : b \in Bodies}
Blocks == MalformedBlocks \cup WellFormedBlocks

AllPresent == Elements \cup TimeElements

Parent(e) ==
    CASE e \in {"assignee-val", "reporter-val"} -> "people-details"
      [] e = "created-val time" -> "created-val"
      [] e = "updated-val time" -> "updated-val"
      [] e = "resolutiondate-val time" -> "resolutiondate-val"
      [] OTHER -> e

\* the page on which the elements of M, and what lies inside them, are missing
Without(M) == {e \in AllPresent \ M : Parent(e) \notin M}

PlainComment == Block(TRUE, TRUE, TRUE, <<"bob">>, <<"added", " ", "a", " ", "comment">>)
AnonComment == Block(TRUE, TRUE, FALSE, <<>>, <<"hi">>)

\* the detail pages the site may serve
DetailPages(kind) ==
    CASE kind = "plain" ->
            { [present |-> AllPresent, comments |-> <<PlainComment>>] }
      [] kind = "few" ->
            { [present |-> AllPresent, comments |-> <<PlainComment>>],
              [present |-> {}, comments |-> <<>>] }
      [] kind = "fields" ->
            { [present |-> pr, comments |-> cs] :
                pr \in {Without(M) : M \in SubsetsUpTo(AllPresent, MaxMissing)}
                       \cup {{}},
                cs \in { <<>>, <<AnonComment>> } }
      [] OTHER ->
            { [present |-> AllPresent, comments |-> cs] :
                cs \in SeqsUpTo(Blocks, MaxComments) }

----------------------------------------------------------------------------
(* crawler.py: the extractors and process_issue *)

RECURSIVE Join(_, _)
\* sep.join(parts)
Join(parts, sep) ==
    IF parts = <<>> THEN <<>>
    ELSE IF Len(parts) = 1 THEN parts[1]
    ELSE parts[1] \o sep \o Join(Tail(parts), sep)

\* Tag.get_text(separator=sep, strip=True): the stripped text nodes that are
\* not empty, joined by sep
GetText(nodes, sep) ==
    Join(SelectSeq([i \in 1..Len(nodes) |-> Strip(nodes[i])],
                   LAMBDA n : n # <<>>), sep)

\* a dict: a function from its keys
EmptyDict == [k \in {} |-> <<>>]
Put(d, k, v) == [x \in DOMAIN d \cup {k} |-> IF x = k THEN v ELSE d[x]]
\* dict.update
Update(d, e) ==
    [x \in DOMAIN d \cup DOMAIN e |-> IF x \in DOMAIN e THEN e[x] ELSE d[x]]

\* lines 35-38 and 45-48
RECURSIVE SelectFields(_, _, _)
SelectFields(page, fs, data) ==
    IF fs = <<>> THEN data
    ELSE LET key == Head(fs)[1]
             selector == Head(fs)[2]
         IN SelectFields(page, Tail(fs),
                IF selector \in page.present
                THEN Put(data, key, GetText(ElemNodes(selector), <<>>))
                ELSE data)

extract_details(page) ==
    SelectFields(page, custom_fields, SelectFields(page, fields, EmptyDict))

extract_people_data(page) ==
    IF "people-details" \in page.present
    THEN LET a == IF "assignee-val" \in page.present
                  THEN Put(EmptyDict, "Assignee", GetText(ElemNodes("assignee-val"), <<>>))
                  ELSE EmptyDict
         IN IF "reporter-val" \in page.present
            THEN Put(a, "Reporter", GetText(ElemNodes("reporter-val"), <<>>))
            ELSE a
    ELSE EmptyDict

RECURSIVE DateFields(_, _, _)
DateFields(page, fs, data) ==
    IF fs = <<>> THEN data
    ELSE LET key == Head(fs)[1]
             span == Head(fs)[2]
         IN DateFields(page, Tail(fs),
                IF span \in page.present /\ TimeOf(span) \in page.present
                THEN Put(data, key, GetText(ElemNodes(TimeOf(span)), <<>>))
                ELSE data)

extract_date_data(page) == DateFields(page, date_fields, EmptyDict)

extract_description_data(page) ==
    IF "description-val" \in page.present
    THEN clean_text(GetText(ElemNodes("description-val"), <<"\n">>))
    ELSE <<>>

\* the text nodes of div.action-details: the anchor's, then the rest
DetailsNodes(b) == IF b.anchor THEN <<b.author, b.body>> ELSE <<b.body>>

\* lines 127-144
CommentOf(b) ==
    [commenter |-> clean_text(IF b.anchor THEN GetText(<<b.author>>, <<>>)
                              ELSE <<"Unknown">>),
     comment |-> clean_text(GetText(DetailsNodes(b), <<" ">>))]

\* an extraction that skips no block
CommentsOfAll(divs) == [i \in 1..Len(divs) |-> CommentOf(divs[i])]
\* lines 106-144: a block without div.concise or div.action-details is skipped
CommentsOf(divs) ==
    LET kept == SelectSeq(divs, LAMBDA b : b.concise /\ b.details)
    IN [i \in 1..Len(kept) |-> CommentOf(kept[i])]

extract_comments(page) ==
    IF "issue_actions_container" \notin page.present THEN <<>>
    ELSE CommentsOf(page.comments)

Delimiter == <<" ", "|", " ">>

\* lines 166-170
FormatComments(comments) ==
    Join([i \in 1..Len(comments) |->
            comments[i].commenter \o <<":", " ">> \o comments[i].comment],
         Delimiter)

\* a record without the Description and Comments keys
process_issue_no_defaults(url, page) ==
    Update(Update(Update([URL |-> url], extract_details(page)),
                  extract_people_data(page)), extract_date_data(page))

\* lines 159-173
process_issue(url, page) ==
    Put(Put(Update(Update(Update([URL |-> url], extract_details(page)),
                          extract_people_data(page)),
                   extract_date_data(page)),
            "Description", extract_description_data(page)),
        "Comments", FormatComments(extract_comments(page)))

----------------------------------------------------------------------------
(* crawler.py: main, crawl_issue_list and write_to_csv as a state machine *)

Get(url) == <<"get", url>>
Click == <<"click", <<>> >>
Quit == <<"quit", <<>> >>

\* lines 177-179: pandas.DataFrame(data).to_csv: one column per key of any
\* record, one row per record, a key a record lacks left empty
DataFrame(data) ==
    LET columns == UNION {DOMAIN data[i] : i \in 1..Len(data)}
    IN [columns |-> columns,
        rows |-> [i \in 1..Len(data) |->
                    [c \in columns |-> IF c \in DOMAIN data[i]
                                       THEN data[i][c] ELSE <<>>]]]

InitCrawler(kind, detail) ==
    /\ site = [index |-> kind, detail |-> detail]
    /\ pc = "start"
    /\ pageNo = 0
    /\ served = <<>>
    /\ nextLog = <<>>
    /\ issue_urls = <<>>
    /\ all_issues_data = <<>>
    /\ nav = <<>>
    /\ shown = <<>>
    /\ csv = <<>>

IdleText == text = <<>> /\ prev = <<>> /\ calls = 0
IdleGh == gh = [pc |-> "idle"]

Init ==
    /\ InitCrawler("distinct", "plain") \/ InitCrawler("mixed", "few")
    /\ IdleText
    /\ IdleGh

\* line 186: driver.get(start_url) loads the first page, whatever it holds
StartCrawl ==
    /\ pc = "start"
    /\ nav' = Append(nav, Get(start_url))
    /\ pageNo' = 1
    /\ pc' = "scrape"
    /\ UNCHANGED <<text, prev, calls, gh>>
    /\ UNCHANGED <<site, served, nextLog, issue_urls, all_issues_data, shown, csv>>

\* line 186: driver.get raises (the site cannot be reached); main has no handler
StartUnreachable ==
    /\ pc = "start"
    /\ nav' = Append(nav, Get(start_url))
    /\ pc' = "aborted:start"
    /\ UNCHANGED <<text, prev, calls, gh>>
    /\ UNCHANGED <<site, pageNo, served, nextLog, issue_urls, all_issues_data, shown, csv>>

\* lines 190-204: read the page shown and scrape its issue list
ScrapePage ==
    /\ pc = "scrape"
    /\ \E page \in IndexPages(site.index, [i \in 1..Len(served) |-> served[i].page]) :
         LET r == ScrapeSoup(page, issue_urls) IN
         /\ served' = Append(served, [no |-> pageNo, page |-> page])
         /\ issue_urls' = r.urls
         /\ pc' = IF r.raised THEN "aborted:scrape" ELSE "next"
    /\ UNCHANGED <<text, prev, calls, gh>>
    /\ UNCHANGED <<site, pageNo, nextLog, all_issues_data, nav, shown, csv>>

\* a click after which the browser still shows the same page
NextClickedStays ==
    /\ pc = "next"
    /\ pageNo < MaxPages
    /\ nextLog' = Append(nextLog, "ok")
    /\ nav' = Append(nav, Click)
    /\ pc' = "scrape"
    /\ UNCHANGED <<text, prev, calls, gh>>
    /\ UNCHANGED <<site, pageNo, served, issue_urls, all_issues_data, shown, csv>>

\* lines 207-214: the control is found and the click loads the next page
\* (taken to be loaded when the sleep of line 214 ends)
NextClicked ==
    /\ pc = "next"
    /\ pageNo < MaxPages
    /\ nextLog' = Append(nextLog, "ok")
    /\ nav' = Append(nav, Click)
    /\ pageNo' = pageNo + 1
    /\ pc' = "scrape"
    /\ UNCHANGED <<text, prev, calls, gh>>
    /\ UNCHANGED <<site, served, issue_urls, all_issues_data, shown, csv>>

\* a failure on the control that is not caught
NextFailedRaises(why) ==
    /\ pc = "next"
    /\ nextLog' = Append(nextLog, why)
    /\ pc' = "aborted:next"
    /\ UNCHANGED <<text, prev, calls, gh>>
    /\ UNCHANGED <<site, pageNo, served, issue_urls, all_issues_data, nav, shown, csv>>

\* lines 215-219: the wait times out or the click raises; the loop ends and
\* crawl_issue_list returns the list to main (lines 229-232)
NextFailed(why) ==
    /\ pc = "next"
    /\ nextLog' = Append(nextLog, why)
    /\ pc' = "detail"
    /\ UNCHANGED <<text, prev, calls, gh>>
    /\ UNCHANGED <<site, pageNo, served, issue_urls, all_issues_data, nav, shown, csv>>

\* a detail loop that loads the first url every time
FetchDetailSameUrl ==
    /\ pc = "detail"
    /\ Len(all_issues_data) < Len(issue_urls)
    /\ \E page \in DetailPages(site.detail) :
         /\ nav' = Append(nav, Get(issue_urls[1]))
         /\ shown' = Append(shown, page)
         /\ all_issues_data' = Append(all_issues_data, process_issue(issue_urls[1], page))
    /\ UNCHANGED <<text, prev, calls, gh>>
    /\ UNCHANGED <<site, pc, pageNo, served, nextLog, issue_urls, csv>>

\* lines 233-236: the next url's page loads and its record is appended
FetchDetail ==
    /\ pc = "detail"
    /\ Len(all_issues_data) < Len(issue_urls)
    /\ LET url == issue_urls[Len(all_issues_data) + 1] IN
       \E page \in DetailPages(site.detail) :
         /\ nav' = Append(nav, Get(url))
         /\ shown' = Append(shown, page)
         /\ all_issues_data' = Append(all_issues_data, process_issue(url, page))
    /\ UNCHANGED <<text, prev, calls, gh>>
    /\ UNCHANGED <<site, pc, pageNo, served, nextLog, issue_urls, csv>>

\* lines 235 and 152: driver.get raises on a transport failure; neither
\* process_issue nor main has a handler
FetchDetailFails ==
    /\ pc = "detail"
    /\ Len(all_issues_data) < Len(issue_urls)
    /\ nav' = Append(nav, Get(issue_urls[Len(all_issues_data) + 1]))
    /\ pc' = "aborted:detail"
    /\ UNCHANGED <<text, prev, calls, gh>>
    /\ UNCHANGED <<site, pageNo, served, nextLog, issue_urls, all_issues_data, shown, csv>>

\* lines 238-239
Export ==
    /\ pc = "detail"
    /\ Len(all_issues_data) = Len(issue_urls)
    /\ nav' = Append(nav, Quit)
    /\ csv' = Append(csv, DataFrame(all_issues_data))
    /\ pc' = "done"
    /\ UNCHANGED <<text, prev, calls, gh>>
    /\ UNCHANGED <<site, pageNo, served, nextLog, issue_urls, all_issues_data, shown>>

Next ==
    \/ StartCrawl
    \/ StartUnreachable
    \/ ScrapePage
    \/ NextClicked
    \/ NextFailed("timeout")
    \/ NextFailed("click_error")
    \/ FetchDetail
    \/ FetchDetailFails
    \/ Export

Spec == Init /\ [][Next]_vars

----------------------------------------------------------------------------
(* Claims about crawl_issue_list and main *)

Last(s) == s[Len(s)]

\* the references of one index page, as the page gives them (normalized), in
\* the order of the page, repeats included
RefsOfPage(page) ==
    LET links == SelectSeq(page.items, LAMBDA li : li.anchor /\ li.attr)
    IN IF page.list THEN [i \in 1..Len(links) |-> Normalize(links[i].href)]
       ELSE <<>>

\* every reference encountered so far: page order, then position in the page
Encountered == Flatten([i \in 1..Len(served) |-> RefsOfPage(served[i].page)])

\* position of the first occurrence of x in s
FirstAt(s, x) == CHOOSE i \in 1..Len(s) : s[i] = x /\ \A j \in 1..(i - 1) : s[j] # x

NoRepeats(s) == \A i, j \in 1..Len(s) : i # j => s[i] # s[j]

ListingReturned == pc \in {"detail", "done", "aborted:detail"}

C2_EveryPageOnceInOrder ==
    (ListingReturned /\ Last(nextLog) = "timeout") =>
        LET K == Len(nextLog) IN
        /\ \A k \in 1..(K - 1) : nextLog[k] = "ok"
        /\ Len(served) = K
        /\ \A k \in 1..K : served[k].no = k
        /\ pageNo = K
        /\ Range(issue_urls) = UNION {Range(RefsOfPage(served[k].page)) : k \in 1..K}
        /\ (NoRepeats(Encountered) => issue_urls = Encountered)

\* three pages of two new items each: six references
C2_Witness ==
    /\ ListingReturned
    /\ Last(nextLog) = "timeout"
    /\ Len(served) = 3
    /\ \A k \in 1..3 : Len(RefsOfPage(served[k].page)) = 2
    /\ NoRepeats(Encountered)
    /\ Len(issue_urls) = 6

\* C3: an error on the "Next" control (the wait timing out, the click
\* raising) ends the loop without aborting the run, and the list returned
\* holds everything accumulated, the failing page's references included; when
\* it happens on the first page the list is that page's references.
C3_NextErrorEndsLoop ==
    (nextLog # <<>> /\ Last(nextLog) # "ok") =>
        /\ ListingReturned
        /\ Len(served) = Len(nextLog)
        /\ Range(RefsOfPage(Last(served).page)) \subseteq Range(issue_urls)
        /\ Range(issue_urls) = Range(Encountered)
        /\ (Len(served) = 1 /\ NoRepeats(Encountered)
              => issue_urls = RefsOfPage(served[1].page))

\* the click raised on the second page, which had a new reference
C3_Witness ==
    /\ nextLog = <<"ok", "click_error">>
    /\ pc = "detail"
    /\ Len(RefsOfPage(served[2].page)) > 0
    /\ Len(issue_urls) > Len(RefsOfPage(served[1].page))

\* C4 (as claimed): a transport failure on one detail page does not abort
\* the run: the item is skipped and the run goes on to the export.
C4_TransportFailureSkipsItem == pc # "aborted:detail"

Clicks == Len(SelectSeq(nextLog, LAMBDA o : o = "ok"))
Fetches == Len(all_issues_data) + (IF pc = "aborted:detail" THEN 1 ELSE 0)

\* C5: the browser is driven through listing, detail fetch and export in
\* this order and never back: one load of the index, then clicks only, then
\* one load per listed reference in list order and only once the listing has
\* returned, then one export, after the last fetch, of one row per reference
\* in list order, row i carrying reference i as its URL.
C5_PhasesInOrder ==
    /\ nav = (IF pc = "start" THEN <<>> ELSE <<Get(start_url)>>)
             \o [i \in 1..Clicks |-> Click]
             \o [i \in 1..Fetches |-> Get(issue_urls[i])]
             \o (IF pc = "done" THEN <<Quit>> ELSE <<>>)
    /\ ~ListingReturned => all_issues_data = <<>> /\ shown = <<>>
    /\ Len(all_issues_data) <= Len(issue_urls)
    /\ \A i \in 1..Len(all_issues_data) : all_issues_data[i]["URL"] = issue_urls[i]
    /\ Len(csv) = (IF pc = "done" THEN 1 ELSE 0)
    /\ pc = "done" =>
         /\ Len(csv[1].rows) = Len(issue_urls)
         /\ \A i \in 1..Len(issue_urls) : csv[1].rows[i]["URL"] = issue_urls[i]

\* a run over two pages has exported three records
C5_Witness ==
    /\ pc = "done"
    /\ Clicks = 1
    /\ Len(issue_urls) = 3
    /\ Len(csv) = 1

----------------------------------------------------------------------------
(* process_issue on the detail pages: main after a listing of one reference *)

InitDetail ==
    /\ \E detail \in {"fields", "comments"} :
         site = [index |-> "distinct", detail |-> detail]
    /\ pc = "detail"
    /\ pageNo = 1
    /\ served = << [no |-> 1,
                    page |-> [list |-> TRUE, items |-> <<Link(Rel(Names[1]))>>]] >>
    /\ nextLog = <<"timeout">>
    /\ issue_urls = <<Abs(Names[1])>>
    /\ all_issues_data = <<>>
    /\ nav = <<Get(start_url)>>
    /\ shown = <<>>
    /\ csv = <<>>
    /\ IdleText
    /\ IdleGh

NextDetail ==
    \/ FetchDetail
    \/ FetchDetailFails
    \/ Export

SpecDetail == InitDetail /\ [][NextDetail]_vars

\* str.split(sep), sep not empty: the separators are found from the left and
\* do not overlap; cur is the segment being read
RECURSIVE SplitFrom(_, _, _)
SplitFrom(s, sep, cur) ==
    IF s = <<>> THEN <<cur>>
    ELSE IF IsPrefix(sep, s)
         THEN <<cur>> \o SplitFrom(SubSeq(s, Len(sep) + 1, Len(s)), sep, <<>>)
         ELSE SplitFrom(Tail(s), sep, Append(cur, Head(s)))

Split(s, sep) == SplitFrom(s, sep, <<>>)

Contains(s, sub) ==
    \E i \in 0..(Len(s) - Len(sub)) : SubSeq(s, i + 1, i + Len(sub)) = sub

EndsWith(s, suf) ==
    Len(suf) <= Len(s) /\ SubSeq(s, Len(s) - Len(suf) + 1, Len(s)) = suf

\* the comment blocks of a page, none when the container is missing
BlocksOf(page) ==
    IF "issue_actions_container" \in page.present THEN page.comments ELSE <<>>

\* "<author>: <text>" of a block: the anchor's text or "Unknown", and the
\* text of the block's action-details
Entry(b) == CommentOf(b).commenter \o <<":", " ">> \o CommentOf(b).comment

WellFormed(b) == b.concise /\ b.details

\* C6 (as claimed): the Comments string of a page with N comment blocks
\* splits on " | " into exactly N segments, the k-th being the entry of the
\* k-th block, whatever the blocks lack or contain.
C6_OneSegmentPerBlock ==
    \A i \in 1..Len(all_issues_data) :
        LET blocks == BlocksOf(shown[i])
            segs == Split(all_issues_data[i]["Comments"], Delimiter)
        IN IF blocks = <<>> THEN all_issues_data[i]["Comments"] = <<>>
           ELSE /\ Len(segs) = Len(blocks)
                /\ \A k \in 1..Len(blocks) : segs[k] = Entry(blocks[k])

\* no entry holds the delimiter, and none but the last ends with " |"
Unambiguous(entries) ==
    /\ \A k \in 1..Len(entries) : ~Contains(entries[k], Delimiter)
    /\ \A k \in 1..(Len(entries) - 1) : ~EndsWith(entries[k], <<" ", "|">>)

\* C6 (amended): the Comments string is the entries of the blocks that have
\* both div.concise and, inside it, div.action-details, in page order, with
\* " | " between them (empty when there is none); it splits on " | " into
\* exactly these entries when no entry contains " | " and none but the last
\* ends with " |".
C6_OneSegmentPerWellFormedBlock ==
    \A i \in 1..Len(all_issues_data) :
        LET kept == SelectSeq(BlocksOf(shown[i]), WellFormed)
            entries == [k \in 1..Len(kept) |-> Entry(kept[k])]
            str == all_issues_data[i]["Comments"]
        IN /\ str = Join(entries, Delimiter)
           /\ kept = <<>> => str = <<>>
           /\ (kept # <<>> /\ Unambiguous(entries)) => Split(str, Delimiter) = entries

\* a page with a skipped block and a kept one whose author anchor is missing
C6_Witness ==
    /\ Len(all_issues_data) = 1
    /\ Len(shown[1].comments) = MaxComments
    /\ \E k \in 1..MaxComments : ~WellFormed(shown[1].comments[k])
    /\ \E k \in 1..MaxComments :
         /\ WellFormed(shown[1].comments[k])
         /\ ~shown[1].comments[k].anchor
    /\ Unambiguous([k \in 1..Len(SelectSeq(shown[1].comments, WellFormed)) |->
                      Entry(SelectSeq(shown[1].comments, WellFormed)[k])])
    /\ all_issues_data[1]["Comments"] # <<>>

\* the text each element of the fixture shows
Shows(key) ==
    CASE key = "Type" -> <<"Bug">>
      [] key = "Status" -> <<"Open">>
      [] key = "Priority" -> <<"Major">>
      [] key = "Resolution" -> <<"Unresolved">>
      [] key = "Affects Version/s" -> <<"3.1", ",", "4.0">>
      [] key = "Fix Version/s" -> <<"None">>
      [] key = "Component/s" -> <<"camel-core">>
      [] key = "Labels" -> <<"easy">>
      [] key = "Patch Info" -> <<"Patch", " ", "Available">>
      [] key = "Estimated Complexity" -> <<"Novice">>
      [] key = "Assignee" -> <<"Ann", " ", "Lee">>
      [] key = "Reporter" -> <<"Raj">>
      [] key = "Created" -> <<"01/Jan/20">>
      [] key = "Updated" -> <<"02/Feb/20">>
      [] key = "Resolved" -> <<"03/Mar/20">>
      [] OTHER -> <<"Steps", ":", " ", "run", " ", "it">>

\* the elements a named field of the record is read from
Needs(key) ==
    CASE key = "Assignee" -> {"people-details", "assignee-val"}
      [] key = "Reporter" -> {"people-details", "reporter-val"}
      [] key \in {f[1] : f \in Range(date_fields)} ->
            UNION {{f[2], TimeOf(f[2])} : f \in {g \in Range(date_fields) : g[1] = key}}
      [] OTHER ->
            {f[2] : f \in {g \in Range(fields) \cup Range(custom_fields) : g[1] = key}}

NamedFields ==
    {f[1] : f \in Range(fields) \cup Range(custom_fields) \cup Range(date_fields)}
    \cup {"Assignee", "Reporter"}

\* C7: whatever optional elements a detail page lacks, process_issue returns
\* a record (no error): URL, Description and Comments are always there, a
\* named field is there exactly when its elements are and then shows the
\* page's value, Description and Comments are empty when their element is
\* missing, and a comment without an author anchor is by "Unknown".
C7_MissingFieldsOmitted ==
    \A i \in 1..Len(all_issues_data) :
        LET rec == all_issues_data[i]
            page == shown[i]
        IN /\ DOMAIN rec \subseteq NamedFields \cup {"URL", "Description", "Comments"}
           /\ {"URL", "Description", "Comments"} \subseteq DOMAIN rec
           /\ rec["URL"] = issue_urls[i]
           /\ \A key \in NamedFields :
                /\ key \in DOMAIN rec <=> Needs(key) \subseteq page.present
                /\ key \in DOMAIN rec => rec[key] = Shows(key)
           /\ rec["Description"] = (IF "description-val" \in page.present
                                    THEN Shows("Description") ELSE <<>>)
           /\ BlocksOf(page) = <<>> => rec["Comments"] = <<>>
           /\ BlocksOf(page) = <<AnonComment>> =>
                rec["Comments"] = <<"Unknown", ":", " ", "hi">>

\* the fixture of the spec: Type is there, the assignee is missing
C7_Witness ==
    /\ Len(all_issues_data) = 1
    /\ "#type-val" \in shown[1].present
    /\ "people-details" \in shown[1].present
    /\ "assignee-val" \notin shown[1].present
    /\ "description-val" \notin shown[1].present
    /\ all_issues_data[1]["Type"] = <<"Bug">>
    /\ "Assignee" \notin DOMAIN all_issues_data[1]

----------------------------------------------------------------------------
(* clean_text applied to a text, and again to its result *)

InitText ==
    /\ InitCrawler("distinct", "plain")
    /\ IdleGh
    /\ text \in SeqsUpTo(Chars, MaxLen)
    /\ prev = <<>>
    /\ calls = 0

Normalise ==
    /\ calls < MaxCalls
    /\ prev' = text
    /\ text' = clean_text(text)
    /\ calls' = calls + 1
    /\ UNCHANGED crawlerVars
    /\ UNCHANGED gh

NextText == Normalise

SpecText == InitText /\ [][NextText]_vars

\* C10: the result of clean_text neither begins nor ends with whitespace and
\* holds no two adjacent whitespace characters, and clean_text applied to a
\* result returns it unchanged.
C10_CleanTextIdempotent ==
    /\ calls >= 1 =>
         /\ text # <<>> => text[1] \notin WS /\ text[Len(text)] \notin WS
         /\ \A i \in 1..(Len(text) - 1) : ~(text[i] \in WS /\ text[i + 1] \in WS)
    /\ calls >= 2 => text = prev

\* clean_text has been applied twice and the text has an inner space left
C10_Witness ==
    /\ calls = 2
    /\ Len(text) >= 3
    /\ " " \in Range(text)

----------------------------------------------------------------------------
(* Kaggle/script.py: one run of the script *)

\* lines 12-15: the Authorization header is built whether or not the
\* environment holds GITHUB_TOKEN; f"token {None}" is "token None"
auth_header(token) ==
    [Authorization |-> <<"token", IF token.set THEN token.value ELSE "None">>]

\* a request sent without an Authorization header
NoAuthorization == [Authorization |-> <<>>]

\* lines 25, 117-130, 72, 96: the requests made for one repository, in order
Endpoints == <<"commits", "contributors", "branches", "tags", "releases",
               "repo", "search/issues", "environments", "languages">>

\* lines 40, 118, 130: auth_header; lines 73-78 with token=None (line 126):
\* Accept only; line 97: no headers
HeadersFor(endpoint, token) ==
    IF endpoint \in {"search/issues", "languages"} THEN NoAuthorization
    ELSE auth_header(token)

RepoNames == <<"docker-python", "kagglehub", "kaggle-api", "learntools">>

\* what the organisation listing may answer: a list of repositories, a body
\* that is not JSON, a JSON error object, or no answer at all
OrgAnswers ==
    {[kind |-> "list", items |-> SubSeq(RepoNames, 1, k)] : k \in 0..MaxRepos}
    \cup {[kind |-> "nonjson", items |-> <<>>],
          [kind |-> "object", items |-> <<"message", "documentation_url">>],
          [kind |-> "unreachable", items |-> <<>>]}

Request(endpoint, headers) == [endpoint |-> endpoint, headers |-> headers]

InitKaggle ==
    /\ InitCrawler("distinct", "plain")
    /\ IdleText
    /\ \E token \in {[set |-> FALSE, value |-> ""], [set |-> TRUE, value |-> "ghp_1"]} :
         gh = [pc |-> "load", token |-> token, index |-> "none",
               kaggle_org_repos |-> <<>>, i |-> 1, step |-> 1, requests |-> <<>>,
               all_repo_data |-> <<>>, saved |-> <<>>, error |-> "none"]

\* lines 18-23
LoadOrg ==
    /\ gh.pc = "load"
    /\ \E answer \in OrgAnswers :
         gh' = [gh EXCEPT
                  !.requests = Append(@, Request("orgs/Kaggle/repos", auth_header(gh.token))),
                  !.index = answer.kind,
                  !.kaggle_org_repos = answer.items,
                  !.pc = IF answer.kind = "unreachable" THEN "crashed" ELSE "loop",
                  !.error = IF answer.kind = "unreachable" THEN "ConnectionError" ELSE "none"]
    /\ UNCHANGED crawlerVars
    /\ UNCHANGED textVars

\* lines 162-163: iterating a JSON object yields its keys, and str has no get
RepoNotADict ==
    /\ gh.pc = "loop"
    /\ gh.index = "object"
    /\ gh.i <= Len(gh.kaggle_org_repos)
    /\ gh' = [gh EXCEPT !.pc = "crashed", !.error = "AttributeError"]
    /\ UNCHANGED crawlerVars
    /\ UNCHANGED textVars

\* lines 164-172: the next request for the repository is answered; after the
\* last one the repository's data is appended
RepoRequest ==
    /\ gh.pc = "loop"
    /\ gh.index # "object"
    /\ gh.i <= Len(gh.kaggle_org_repos)
    /\ LET endpoint == Endpoints[gh.step]
           last == gh.step = Len(Endpoints)
       IN gh' = [gh EXCEPT
                   !.requests = Append(@, Request(endpoint, HeadersFor(endpoint, gh.token))),
                   !.step = IF last THEN 1 ELSE @ + 1,
                   !.i = IF last THEN @ + 1 ELSE @,
                   !.all_repo_data = IF last THEN Append(@, gh.kaggle_org_repos[gh.i]) ELSE @]
    /\ UNCHANGED crawlerVars
    /\ UNCHANGED textVars

\* any requests.get raising (no handler anywhere), and lines 98-99: a
\* languages answer other than 200 raises Exception
RepoRequestFails ==
    /\ gh.pc = "loop"
    /\ gh.index # "object"
    /\ gh.i <= Len(gh.kaggle_org_repos)
    /\ LET endpoint == Endpoints[gh.step] IN
       \E error \in {"ConnectionError"} \cup
                    (IF endpoint = "languages" THEN {"Error fetching languages"} ELSE {}) :
         gh' = [gh EXCEPT
                  !.requests = Append(@, Request(endpoint, HeadersFor(endpoint, gh.token))),
                  !.pc = "crashed",
                  !.error = error]
    /\ UNCHANGED crawlerVars
    /\ UNCHANGED textVars

\* line 174
SaveData ==
    /\ gh.pc = "loop"
    /\ gh.i > Len(gh.kaggle_org_repos)
    /\ gh' = [gh EXCEPT !.saved = Append(@, gh.all_repo_data), !.pc = "done"]
    /\ UNCHANGED crawlerVars
    /\ UNCHANGED textVars

NextKaggle ==
    \/ LoadOrg
    \/ RepoNotADict
    \/ RepoRequest
    \/ RepoRequestFails
    \/ SaveData

SpecKaggle == InitKaggle /\ [][NextKaggle]_vars

\* C8 (as claimed): a run that does not get the list of repositories (no
\* answer, an answer that is not JSON, an error object) aborts with a
\* diagnostic; it never ends normally with an exported dataset.
C8_NoIndexAborts ==
    gh.pc # "load" /\ gh.index # "list" =>
        /\ gh.pc # "done"
        /\ gh.saved = <<>>

\* C9 (as claimed): with a token in the environment every request carries
\* it in its Authorization header; without one no request carries the header.
C9_TokenOnEveryRequestWhenPresent ==
    \A k \in 1..Len(gh.requests) :
        gh.requests[k].headers.Authorization =
            (IF gh.token.set THEN <<"token", gh.token.value>> ELSE <<>>)

====
